---- MODULE Spec2Model ----
(***************************************************************************)
(* Macro cache manager of macro-dashboard (src/server.js): the persisted   *)
(* cache snapshot, the single-flight refresh guard macroRefreshPromise,    *)
(* the batch of seven indicator fetches and getMacroPayload; then the      *)
(* fetchJson / fetchText calls with their timers, the BTC endpoints with   *)
(* their fallback to the merged daily series, and alignSeriesToDates;      *)
(* then single calls of computeLiquiditySeries, classifyRegime,            *)
(* computeRsi, computeRollingSma and buildMacroPayload on bounded inputs.  *)
(*                                                                         *)
(* Numbers are integers counting hundredths (4.25 is 425), so that         *)
(* toFixed(2) is a rounding to an integer; only the running sum of         *)
(* computeRollingSma is kept with the rounding of its every operation.     *)
(* Times are epoch milliseconds relative to server start.  The events and  *)
(* generatedAt fields of the payload (calendar estimates) are not          *)
(* represented.                                                            *)
(* Node runs one event loop: the synchronous part of a handler and the     *)
(* microtasks that follow a promise settlement run without interleaving,   *)
(* so each of them is one action.                                          *)
(***************************************************************************)
EXTENDS Integers, Sequences, FiniteSets, TLC

VARIABLES fredApiKey, now, store, macroRefreshPromise, inflight, awaiting,
          started, fetchCalls, resp, event,
          calls, btc, align, compute

vars == <<fredApiKey, now, store, macroRefreshPromise, inflight, awaiting,
          started, fetchCalls, resp, event, calls, btc, align,
          compute>>

\* The state of the macro cache manager.
cacheVars == <<now, store, macroRefreshPromise, inflight, awaiting,
               started, fetchCalls, resp, event>>

\* The fetchJson / fetchText calls of a batch, the BTC request being handled,
\* the alignSeriesToDates call and the call of one of the series functions
\* (computeLiquiditySeries, classifyRegime, computeRsi, computeRollingSma,
\* buildMacroPayload): state the cache manager never touches.
otherVars == <<calls, btc, align, compute>>

(* ---------------------------- bounds ----------------------------------- *)
MaxRefreshes == 2
MaxWaiters == 2
MaxClockSteps == 3

(* ------------------------ program constants ---------------------------- *)
MACRO_CACHE_TTL_MS == 15 * 60 * 1000

FRED_SERIES == {"fedBalanceSheet", "reverseRepo", "treasuryGeneralAccount",
                "tenYearYield", "twoYearYield", "realTenYearYield", "dxyBroad"}

RegimeWindow == 30

\* null / undefined is the empty tuple and a present value v is <<v>>, so that
\* a nullable field always holds a tuple.
Null == <<>>
Some(v) == <<v>>
Get(o) == o[1]

NoPromise == 0

(* ------------------------- evaluation helpers -------------------------- *)
\* const x = e; ... : the value of e is computed once and named.
Bind(e, F(_)) == CHOOSE r \in {F(x) : x \in {e}} : TRUE
Bind3(a, b, c, F(_, _, _)) == CHOOSE r \in {F(x, y, z) : x \in {a}, y \in {b}, z \in {c}} : TRUE

\* An array as a tuple of its elements.
Array(s) == SubSeq(s, 1, Len(s))

(* ------------------------- arithmetic helpers -------------------------- *)
\* Number.prototype.toFixed: nearest, halves away from zero (a / b, b > 0).
RoundDiv(a, b) ==
  IF a >= 0 THEN (2 * a + b) \div (2 * b) ELSE 0 - ((2 * (0 - a) + b) \div (2 * b))

SeqMin(s) == CHOOSE m \in {s[i] : i \in 1..Len(s)} : \A i \in 1..Len(s) : m <= s[i]
SeqMax(s) == CHOOSE m \in {s[i] : i \in 1..Len(s)} : \A i \in 1..Len(s) : m >= s[i]

RECURSIVE SeqSum(_)
SeqSum(s) == IF Len(s) = 0 THEN 0 ELSE s[Len(s)] + SeqSum(SubSeq(s, 1, Len(s) - 1))

\* Array.prototype.slice(-n)
SliceTail(s, n) == IF n >= Len(s) THEN s ELSE SubSeq(s, Len(s) - n + 1, Len(s))

RECURSIVE Gcd(_, _)
Gcd(a, b) == IF b = 0 THEN a ELSE Gcd(b, a % b)

\* The fraction num / den (num >= 0, den > 0) in lowest terms.
Reduce(f) == LET g == Gcd(f.den, f.num) IN [num |-> f.num \div g, den |-> f.den \div g]

Min3(a, b, c) == IF a <= b /\ a <= c THEN a ELSE IF b <= c THEN b ELSE c

(* --------------------------- pure functions ---------------------------- *)
latest(points) == IF Len(points) > 0 THEN Some(points[Len(points)]) ELSE Null

\* The mean of whatever values there are when fewer than size are available.
rollingAverage_Partial(values, size) ==
  IF Len(values) = 0 \/ size <= 0 THEN Null
  ELSE Some([sum |-> SeqSum(SliceTail(values, size)),
             n |-> IF Len(values) < size THEN Len(values) ELSE size])

\* The mean of the last size values as the fraction sum / n, or Null.
rollingAverage(values, size) ==
  IF Len(values) < size \/ size <= 0 THEN Null
  ELSE Some([sum |-> SeqSum(SliceTail(values, size)), n |-> size])

\* The normalisation left on the scale 0..1.
normalizeWindow_Unscaled(values) ==
  IF Len(values) = 0 THEN <<>>
  ELSE Bind3(SeqMin(values), SeqMax(values), Len(values), LAMBDA min, max, n :
         Bind(IF max - min = 0 THEN 100 ELSE max - min, LAMBDA span :
           Array([i \in 1..n |-> [num |-> values[i] - min, den |-> span]])))

\* ((v - min) / span) * 100 as the fraction num / den; span = max - min || 1.
normalizeWindow(values) ==
  IF Len(values) = 0 THEN <<>>
  ELSE Bind3(SeqMin(values), SeqMax(values), Len(values), LAMBDA min, max, n :
         Bind(IF max - min = 0 THEN 100 ELSE max - min, LAMBDA span :
           Array([i \in 1..n |-> [num |-> (values[i] - min) * 100, den |-> span]])))

\* points.map(item => item.value)
Values(points) == [i \in 1..Len(points) |-> points[i].value]

\* The two drains added to each other instead of subtracted from the balance sheet.
NetOf_DrainsAdded(w, r, t) ==
  RoundDiv(100 * (w.num * r.den * t.den + r.num * w.den * t.den + t.num * w.den * r.den),
           w.den * r.den * t.den)

\* walclNorm[idx] - rrpNorm[idx] - tgaNorm[idx], toFixed(2).
NetOf(w, r, t) ==
  RoundDiv(100 * (w.num * r.den * t.den - r.num * w.den * t.den - t.num * w.den * r.den),
           w.den * r.den * t.den)

computeLiquiditySeries(walcl, rrp, tga) ==
  Bind(Min3(Len(walcl), Len(rrp), Len(tga)), LAMBDA length :
    IF length = 0 THEN <<>>
    ELSE Bind3(Array(Values(SliceTail(walcl, length))),
               Array(Values(SliceTail(rrp, length))),
               Array(Values(SliceTail(tga, length))), LAMBDA walclTail, rrpTail, tgaTail :
           Bind3(normalizeWindow(walclTail), normalizeWindow(rrpTail),
                 normalizeWindow(tgaTail), LAMBDA walclNorm, rrpNorm, tgaNorm :
             Bind(SliceTail(walcl, length), LAMBDA dated :
               Array([idx \in 1..length |->
                 [date |-> dated[idx].date,
                  netLiquidityIndex |->
                    NetOf(Reduce(walclNorm[idx]), Reduce(rrpNorm[idx]), Reduce(tgaNorm[idx])),
                  walcl |-> walclTail[idx], rrp |-> rrpTail[idx], tga |-> tgaTail[idx]]])))))

\* Number.isFinite on a nullable number.
IsFinite(x) == x # Null

UnknownRegime(reason) ==
  [liquidity |-> "Unknown", rates |-> "Unknown", macroRisk |-> "Unknown",
   rationale |-> <<[text |-> reason, delta |-> Null]>>]

\* The risk bands shifted down by one: Low for 0, Medium for 1, High from 2.
classifyRegime_BandsShifted(liquidityIndex, tenYearYield, realYield, dxy) ==
  IF \/ ~IsFinite(liquidityIndex.current) \/ ~IsFinite(liquidityIndex.avg30)
     \/ ~IsFinite(tenYearYield.current) \/ ~IsFinite(tenYearYield.avg30)
     \/ ~IsFinite(realYield.current) \/ ~IsFinite(realYield.avg30)
     \/ ~IsFinite(dxy.current) \/ ~IsFinite(dxy.avg30)
  THEN UnknownRegime("Not enough macro inputs yet. Configure FRED and refresh.")
  ELSE LET Trend(x) == Get(x.avg30).n * Get(x.current) - Get(x.avg30).sum
           Delta(x) == Some(RoundDiv(Trend(x), Get(x.avg30).n))
           riskScore == (IF Trend(liquidityIndex) < 0 THEN 1 ELSE 0)
                        + (IF Trend(tenYearYield) > 0 THEN 1 ELSE 0)
                        + (IF Trend(realYield) > 0 THEN 1 ELSE 0)
                        + (IF Trend(dxy) > 0 THEN 1 ELSE 0)
       IN [liquidity |-> IF Trend(liquidityIndex) >= 0 THEN "Expanding" ELSE "Contracting",
           rates |-> IF Trend(tenYearYield) <= 0 THEN "Easing" ELSE "Tightening",
           macroRisk |-> IF riskScore <= 0 THEN "Low"
                         ELSE IF riskScore <= 1 THEN "Medium" ELSE "High",
           rationale |-> <<[text |-> "Liquidity trend vs 30D", delta |-> Delta(liquidityIndex)],
                           [text |-> "10Y nominal trend vs 30D", delta |-> Delta(tenYearYield)],
                           [text |-> "10Y real trend vs 30D", delta |-> Delta(realYield)],
                           [text |-> "DXY trend vs 30D", delta |-> Delta(dxy)]>>]

\* Each input is [current, avg30]; a trend current - sum/n is kept as the
\* numerator n * current - sum, which has the trend's sign.
classifyRegime(liquidityIndex, tenYearYield, realYield, dxy) ==
  IF \/ ~IsFinite(liquidityIndex.current) \/ ~IsFinite(liquidityIndex.avg30)
     \/ ~IsFinite(tenYearYield.current) \/ ~IsFinite(tenYearYield.avg30)
     \/ ~IsFinite(realYield.current) \/ ~IsFinite(realYield.avg30)
     \/ ~IsFinite(dxy.current) \/ ~IsFinite(dxy.avg30)
  THEN UnknownRegime("Not enough macro inputs yet. Configure FRED and refresh.")
  ELSE LET Trend(x) == Get(x.avg30).n * Get(x.current) - Get(x.avg30).sum
           Delta(x) == Some(RoundDiv(Trend(x), Get(x.avg30).n))
           liqTrend == Trend(liquidityIndex)
           ratesTrend == Trend(tenYearYield)
           realTrend == Trend(realYield)
           dxyTrend == Trend(dxy)
           riskScore == (IF liqTrend < 0 THEN 1 ELSE 0) + (IF ratesTrend > 0 THEN 1 ELSE 0)
                        + (IF realTrend > 0 THEN 1 ELSE 0) + (IF dxyTrend > 0 THEN 1 ELSE 0)
       IN [liquidity |-> IF liqTrend >= 0 THEN "Expanding" ELSE "Contracting",
           rates |-> IF ratesTrend <= 0 THEN "Easing" ELSE "Tightening",
           macroRisk |-> IF riskScore <= 1 THEN "Low"
                         ELSE IF riskScore <= 2 THEN "Medium" ELSE "High",
           rationale |-> <<[text |-> "Liquidity trend vs 30D", delta |-> Delta(liquidityIndex)],
                           [text |-> "10Y nominal trend vs 30D", delta |-> Delta(tenYearYield)],
                           [text |-> "10Y real trend vs 30D", delta |-> Delta(realYield)],
                           [text |-> "DXY trend vs 30D", delta |-> Delta(dxy)]>>]

\* latest(x)?.value and latest(x)?.date || null
ValueOf(obs) == IF obs = Null THEN Null ELSE Some(Get(obs).value)
DateOf(obs) == IF obs = Null THEN Null ELSE Some(Get(obs).date)

\* The payload assembled from the series, the liquidity series liq and the regime.
AssemblePayload(walcl, rrp, tga, dgs10, dgs2, dfii10, dxy, liq, regime, statusMap) ==
  LET liqValues == [i \in 1..Len(liq) |-> liq[i].netLiquidityIndex]
      tenCurrent == ValueOf(latest(dgs10))
      twoCurrent == ValueOf(latest(dgs2))
      okCount == Cardinality({k \in DOMAIN statusMap : statusMap[k].ok})
  IN [metrics |->
        [fedBalanceSheet |-> latest(walcl),
         reverseRepo |-> latest(rrp),
         treasuryGeneralAccount |-> latest(tga),
         tenYearYield |-> latest(dgs10),
         twoYearYield |-> latest(dgs2),
         realTenYearYield |-> latest(dfii10),
         dxyBroad |-> latest(dxy),
         curveSpread |->
           [date |-> DateOf(latest(dgs10)),
            value |-> IF IsFinite(tenCurrent) /\ IsFinite(twoCurrent)
                      THEN Some(Get(tenCurrent) - Get(twoCurrent)) ELSE Null],
         netLiquidityIndex |->
           [date |-> IF Len(liq) > 0 THEN Some(liq[Len(liq)].date) ELSE Null,
            value |-> IF Len(liqValues) > 0 THEN Some(liqValues[Len(liqValues)]) ELSE Null]],
      liquiditySeries |-> SliceTail(liq, 260),
      regime |-> regime,
      seriesStatus |-> statusMap,
      okSeriesCount |-> okCount,
      totalSeriesCount |-> Cardinality(DOMAIN statusMap)]

buildMacroPayload(seriesMap, statusMap) ==
  Bind3(Array(seriesMap["fedBalanceSheet"]), Array(seriesMap["reverseRepo"]),
        Array(seriesMap["treasuryGeneralAccount"]), LAMBDA walcl, rrp, tga :
    Bind3(Array(seriesMap["tenYearYield"]), Array(seriesMap["realTenYearYield"]),
          Array(seriesMap["dxyBroad"]), LAMBDA dgs10, dfii10, dxy :
      Bind3(Array(seriesMap["twoYearYield"]), computeLiquiditySeries(walcl, rrp, tga),
            [k \in DOMAIN statusMap |-> statusMap[k]], LAMBDA dgs2, liq, status :
        Bind3([current |-> IF Len(liq) > 0 THEN Some(liq[Len(liq)].netLiquidityIndex) ELSE Null,
               avg30 |-> rollingAverage(Array([i \in 1..Len(liq) |-> liq[i].netLiquidityIndex]),
                                        RegimeWindow)],
              [current |-> ValueOf(latest(dgs10)),
               avg30 |-> rollingAverage(Array(Values(dgs10)), RegimeWindow)],
              [current |-> ValueOf(latest(dfii10)),
               avg30 |-> rollingAverage(Array(Values(dfii10)), RegimeWindow)],
              LAMBDA liquidityIndex, tenYearYield, realYield :
          Bind([current |-> ValueOf(latest(dxy)),
                avg30 |-> rollingAverage(Array(Values(dxy)), RegimeWindow)], LAMBDA dxyInput :
            AssemblePayload(walcl, rrp, tga, dgs10, dgs2, dfii10, dxy, liq,
                            classifyRegime(liquidityIndex, tenYearYield, realYield, dxyInput),
                            status))))))

emptyMacroPayload(reason) ==
  [metrics |->
     [fedBalanceSheet |-> Null, reverseRepo |-> Null, treasuryGeneralAccount |-> Null,
      tenYearYield |-> Null, twoYearYield |-> Null, realTenYearYield |-> Null,
      dxyBroad |-> Null,
      curveSpread |-> [date |-> Null, value |-> Null],
      netLiquidityIndex |-> [date |-> Null, value |-> Null]],
   liquiditySeries |-> <<>>,
   regime |-> UnknownRegime(IF reason = "" THEN "Macro data unavailable" ELSE reason),
   seriesStatus |-> <<>>,
   okSeriesCount |-> 0,
   totalSeriesCount |-> Cardinality(FRED_SERIES)]

(* ------------------------------ upstream ------------------------------- *)
\* What FRED serves for an indicator: nothing, or a history whose last
\* RegimeWindow points move up or down.  WALCL and WTREGEN are weekly and
\* shorter than the daily series.
DataSets == {"empty", "rising", "falling"}

NativeLength(key) ==
  IF key \in {"fedBalanceSheet", "treasuryGeneralAccount"} THEN RegimeWindow
  ELSE RegimeWindow + 2

Upstream(key, data) ==
  IF data = "empty" THEN <<>>
  ELSE [i \in 1..NativeLength(key) |->
          [date |-> i + (RegimeWindow + 2 - NativeLength(key)),
           value |-> IF (data = "rising") = (key \in {"reverseRepo", "twoYearYield"})
                     THEN 400 - i ELSE 100 + i]]

\* Messages of a failed fetchJson ("" stands for an error without message).
FetchErrors == {"Request timed out after 12000ms", ""}

\* Outcomes of fs.writeFileSync: done, or thrown with the file as it was
\* (the store is written wholesale).
WriteErrors == {"EACCES: permission denied, open"}
WriteOutcomes == {"ok"} \cup WriteErrors

\* The failing subsets the cache machine is driven with: none, one, all but
\* one, all.  SpecBatch drives one refresh with every subset.
FailSets == {{}, {"twoYearYield"}, FRED_SERIES \ {"dxyBroad"}, FRED_SERIES}

(* ------------------------------ the store ------------------------------ *)
\* data/macro-cache.json: absent, not JSON, or a JSON object whose cachedAt
\* and payload may be missing.
StoreMissing == [kind |-> "missing", cachedAt |-> Null, payload |-> Null]
StoreUnparseable == [kind |-> "unparseable", cachedAt |-> Null, payload |-> Null]
StoreNoPayload == [kind |-> "json", cachedAt |-> Some(0), payload |-> Null]
StoreNoCachedAt ==
  [kind |-> "json", cachedAt |-> Null, payload |-> Some(emptyMacroPayload(""))]

readMacroCache ==
  IF store.kind = "json" THEN Some([cachedAt |-> store.cachedAt, payload |-> store.payload])
  ELSE Null

\* writeMacroCache leaving a truncated file when the write throws.
writeMacroCache_Torn(payload, outcome) ==
  IF outcome = "ok"
  THEN [kind |-> "json", cachedAt |-> Some(now), payload |-> Some(payload)]
  ELSE StoreUnparseable

\* writeMacroCache stamping the snapshot with the epoch instead of Date.now().
writeMacroCache_EpochStamp(payload, outcome) ==
  IF outcome = "ok"
  THEN [kind |-> "json", cachedAt |-> Some(0), payload |-> Some(payload)]
  ELSE store

\* The file after writeMacroCache(payload) with the given outcome.
writeMacroCache(payload, outcome) ==
  IF outcome = "ok"
  THEN [kind |-> "json", cachedAt |-> Some(now), payload |-> Some(payload)]
  ELSE store

\* { ...base, ...overrides }
Spread(base, overrides) == overrides @@ base

\* cache?.payload && Number.isFinite(cache.cachedAt)
HasSnapshot(cache) ==
  cache # Null /\ Get(cache).payload # Null /\ IsFinite(Get(cache).cachedAt)

\* ageMs < MACRO_CACHE_TTL_MS
IsFresh_Strict(ageMs) == ageMs < MACRO_CACHE_TTL_MS

\* ageMs <= MACRO_CACHE_TTL_MS
IsFresh(ageMs) == ageMs <= MACRO_CACHE_TTL_MS

\* Number((ageMs / 60000).toFixed(1)), in hundredths of a minute.
cacheAgeMinutes(ageMs) == 10 * RoundDiv(ageMs, 6000)

(* ----------------------------- the refresh ----------------------------- *)
\* fetchFredSeries(FRED_SERIES[key]) with FRED_API_KEY set or not, for a batch
\* in which the indicators of failed fail with message err and the others
\* return the data set.
fetchFredSeries(apiKey, key, failed, err, data) ==
  IF ~apiKey THEN [threw |-> TRUE, message |-> "Missing FRED_API_KEY", points |-> <<>>]
  ELSE IF key \in failed THEN [threw |-> TRUE, message |-> err, points |-> <<>>]
  ELSE [threw |-> FALSE, message |-> "", points |-> Upstream(key, data)]

\* The catch recording error.message without the "Fetch failed" default.
IndicatorEntry_NoFallbackMessage(apiKey, key, failed, err, data) ==
  LET r == fetchFredSeries(apiKey, key, failed, err, data) IN
  IF r.threw
  THEN [points |-> <<>>, status |-> [ok |-> FALSE, error |-> Some(r.message)]]
  ELSE [points |-> r.points, status |-> [ok |-> TRUE, error |-> Null]]

\* The try/catch around each indicator's fetch.
IndicatorEntry(apiKey, key, failed, err, data) ==
  LET r == fetchFredSeries(apiKey, key, failed, err, data) IN
  IF r.threw
  THEN [points |-> <<>>,
        status |-> [ok |-> FALSE,
                    error |-> Some(IF r.message = "" THEN "Fetch failed" ELSE r.message)]]
  ELSE [points |-> r.points, status |-> [ok |-> TRUE, error |-> Null]]

\* The body of the refresh after Promise.all: the aggregated payload.
RefreshPayload(apiKey, failed, err, data) ==
  LET entries == [key \in FRED_SERIES |-> IndicatorEntry(apiKey, key, failed, err, data)]
      seriesMap == [key \in FRED_SERIES |-> entries[key].points]
      statusMap == [key \in FRED_SERIES |-> entries[key].status]
  IN Spread(buildMacroPayload(seriesMap, statusMap), [cacheState |-> "fresh"])

\* RefreshPayload for every outcome of a batch; the comparison makes TLC
\* tabulate the function once instead of evaluating it at every use.
PayloadTable ==
  LET table == [apiKey \in BOOLEAN, failed \in SUBSET FRED_SERIES, err \in FetchErrors,
                data \in DataSets |-> RefreshPayload(apiKey, failed, err, data)]
  IN IF table # <<>> THEN table ELSE <<>>

\* refreshMacroCache without the in-flight check.
refreshMacroCache_NoGuard ==
  /\ started < MaxRefreshes
  /\ started' = started + 1
  /\ macroRefreshPromise' = started + 1
  /\ inflight' = inflight \cup {started + 1}
  /\ fetchCalls' = fetchCalls + Cardinality(FRED_SERIES)

\* refreshMacroCache(): the promise it returns is macroRefreshPromise'.
refreshMacroCache ==
  IF macroRefreshPromise # NoPromise
  THEN UNCHANGED <<macroRefreshPromise, inflight, started, fetchCalls>>
  ELSE /\ started < MaxRefreshes
       /\ started' = started + 1
       /\ macroRefreshPromise' = started + 1
       /\ inflight' = inflight \cup {started + 1}
       /\ fetchCalls' = fetchCalls + Cardinality(FRED_SERIES)

\* The step just taken: the operation, the promise it concerns and, for a
\* settled batch, the indicators whose fetch threw, the aggregated payload and
\* whether the refresh rejected.
Event(op, promise, failed, built, threw) ==
  [op |-> op, promise |-> promise, failed |-> failed, built |-> built, threw |-> threw]

(* ------------------------------- actions ------------------------------- *)
\* No fetchJson / fetchText call observed, no BTC request, no alignment.
NoCalls == <<>>
NoBtcRequest ==
  [pc |-> "idle", handler |-> "", days |-> Null, direct |-> "", sources |-> <<>>,
   queried |-> {}, failed |-> {}, daily |-> Null, resp |-> Null]
NoAlignment == [pc |-> "idle", points |-> <<>>, isoDates |-> <<>>, aligned |-> <<>>]
NoComputation == [fn |-> "none", pc |-> "idle"]

Init ==
  /\ calls = NoCalls
  /\ btc = NoBtcRequest
  /\ align = NoAlignment
  /\ compute = NoComputation
  /\ fredApiKey \in BOOLEAN
  /\ now = 0
  /\ store \in {StoreMissing, StoreUnparseable, StoreNoPayload, StoreNoCachedAt}
  /\ macroRefreshPromise = NoPromise
  /\ inflight = {}
  /\ awaiting = [p \in 1..MaxRefreshes |-> 0]
  /\ started = 0
  /\ fetchCalls = 0
  /\ resp = Null
  /\ event = Event("init", NoPromise, {}, Null, FALSE)

ClockSteps(t) == (t \div MACRO_CACHE_TTL_MS) + (t % MACRO_CACHE_TTL_MS)

\* Date.now() advances, by a millisecond or by the TTL.
Tick ==
  \E d \in {1, MACRO_CACHE_TTL_MS} :
    /\ ClockSteps(now + d) <= MaxClockSteps
    /\ now' = now + d
    /\ resp' = Null
    /\ event' = Event("tick", NoPromise, {}, Null, FALSE)
    /\ UNCHANGED <<fredApiKey, store, macroRefreshPromise, inflight, awaiting,
                   started, fetchCalls>>
    /\ UNCHANGED otherVars

\* The fresh path also calling refreshMacroCache().
ServeFresh_Refreshes ==
  LET cache == readMacroCache IN
  /\ HasSnapshot(cache)
  /\ IsFresh(now - Get(Get(cache).cachedAt))
  /\ refreshMacroCache
  /\ resp' = Some(Spread(Get(Get(cache).payload),
                         [cacheState |-> "fresh",
                          cacheAgeMinutes |-> cacheAgeMinutes(now - Get(Get(cache).cachedAt))]))
  /\ event' = Event("fresh", NoPromise, {}, Null, FALSE)
  /\ UNCHANGED <<fredApiKey, now, store, awaiting>>
  /\ UNCHANGED otherVars

\* The fresh path renewing the snapshot's cachedAt (a sliding expiry).
ServeFresh_Touches ==
  LET cache == readMacroCache IN
  /\ HasSnapshot(cache)
  /\ IsFresh(now - Get(Get(cache).cachedAt))
  /\ store' = [store EXCEPT !.cachedAt = Some(now)]
  /\ resp' = Some(Spread(Get(Get(cache).payload),
                         [cacheState |-> "fresh",
                          cacheAgeMinutes |-> cacheAgeMinutes(now - Get(Get(cache).cachedAt))]))
  /\ event' = Event("fresh", NoPromise, {}, Null, FALSE)
  /\ UNCHANGED <<fredApiKey, now, macroRefreshPromise, inflight, awaiting,
                 started, fetchCalls>>
  /\ UNCHANGED otherVars

\* getMacroPayload, snapshot of age <= TTL.
ServeFresh ==
  LET cache == readMacroCache IN
  /\ HasSnapshot(cache)
  /\ IsFresh(now - Get(Get(cache).cachedAt))
  /\ resp' = Some(Spread(Get(Get(cache).payload),
                         [cacheState |-> "fresh",
                          cacheAgeMinutes |-> cacheAgeMinutes(now - Get(Get(cache).cachedAt))]))
  /\ event' = Event("fresh", NoPromise, {}, Null, FALSE)
  /\ UNCHANGED <<fredApiKey, now, store, macroRefreshPromise, inflight, awaiting,
                 started, fetchCalls>>
  /\ UNCHANGED otherVars

\* The stale path awaiting the refresh instead of returning the snapshot.
ServeStale_Awaits ==
  LET cache == readMacroCache IN
  /\ HasSnapshot(cache)
  /\ ~IsFresh(now - Get(Get(cache).cachedAt))
  /\ refreshMacroCache
  /\ awaiting[macroRefreshPromise'] < MaxWaiters
  /\ awaiting' = [awaiting EXCEPT ![macroRefreshPromise'] = @ + 1]
  /\ resp' = Null
  /\ event' = Event("stale", macroRefreshPromise', {}, Null, FALSE)
  /\ UNCHANGED <<fredApiKey, now, store>>
  /\ UNCHANGED otherVars

\* getMacroPayload, snapshot of age > TTL: refreshMacroCache().catch(() => {}).
ServeStale ==
  LET cache == readMacroCache IN
  /\ HasSnapshot(cache)
  /\ ~IsFresh(now - Get(Get(cache).cachedAt))
  /\ refreshMacroCache
  /\ resp' = Some(Spread(Get(Get(cache).payload),
                         [cacheState |-> "stale",
                          cacheAgeMinutes |-> cacheAgeMinutes(now - Get(Get(cache).cachedAt))]))
  /\ event' = Event("stale", macroRefreshPromise', {}, Null, FALSE)
  /\ UNCHANGED <<fredApiKey, now, store, awaiting>>
  /\ UNCHANGED otherVars

\* readMacroCache without its try/catch: an unreadable store rejects the call.
AwaitRefresh_SurfacesReadFailure ==
  /\ ~HasSnapshot(readMacroCache)
  /\ IF store.kind = "json"
     THEN /\ refreshMacroCache
          /\ awaiting[macroRefreshPromise'] < MaxWaiters
          /\ awaiting' = [awaiting EXCEPT ![macroRefreshPromise'] = @ + 1]
          /\ resp' = Null
     ELSE /\ resp' = Some([rejected |-> TRUE, message |-> store.kind])
          /\ UNCHANGED <<macroRefreshPromise, inflight, started, fetchCalls, awaiting>>
  /\ event' = Event("cold", macroRefreshPromise', {}, Null, FALSE)
  /\ UNCHANGED <<fredApiKey, now, store>>
  /\ UNCHANGED otherVars

\* getMacroPayload, no usable snapshot: await refreshMacroCache().
AwaitRefresh ==
  /\ ~HasSnapshot(readMacroCache)
  /\ refreshMacroCache
  /\ awaiting[macroRefreshPromise'] < MaxWaiters
  /\ awaiting' = [awaiting EXCEPT ![macroRefreshPromise'] = @ + 1]
  /\ resp' = Null
  /\ event' = Event("cold", macroRefreshPromise', {}, Null, FALSE)
  /\ UNCHANGED <<fredApiKey, now, store>>
  /\ UNCHANGED otherVars

\* payload.okSeriesCount >= 0
ShouldWrite_Always(payload) == payload.okSeriesCount >= 0

\* payload.okSeriesCount > 0
ShouldWrite(payload) == payload.okSeriesCount > 0

\* The awaiting call without its try/catch: the rejection reaches the caller.
AwaitedResult_Rethrows(payload, writeOutcome) ==
  IF ShouldWrite(payload) /\ writeOutcome # "ok"
  THEN [rejected |-> TRUE, message |-> writeOutcome]
  ELSE payload

\* What a getMacroPayload call awaiting the refresh returns when it settles.
AwaitedResult(payload, writeOutcome) ==
  IF ShouldWrite(payload) /\ writeOutcome # "ok"
  THEN Spread(emptyMacroPayload(writeOutcome), [cacheState |-> "error"])
  ELSE payload

\* The guard reset after the write instead of in finally: a refresh that
\* throws leaves macroRefreshPromise set.
RefreshSettles_NoFinally(p, failChoices) ==
  \E failed \in failChoices, err \in FetchErrors, data \in DataSets,
     writeOutcome \in WriteOutcomes :
    LET payload == PayloadTable[fredApiKey, failed, err, data]
        threw == ShouldWrite(payload) /\ writeOutcome # "ok"
    IN /\ p \in inflight
       /\ store' = IF ShouldWrite(payload)
                   THEN writeMacroCache(payload, writeOutcome) ELSE store
       /\ inflight' = inflight \ {p}
       /\ macroRefreshPromise' = IF threw THEN macroRefreshPromise ELSE NoPromise
       /\ resp' = IF awaiting[p] > 0 THEN Some(AwaitedResult(payload, writeOutcome)) ELSE Null
       /\ awaiting' = [awaiting EXCEPT ![p] = 0]
       /\ event' = Event("settle", p, IF fredApiKey THEN failed ELSE FRED_SERIES,
                          Some(payload), threw)
       /\ UNCHANGED <<fredApiKey, now, started, fetchCalls>>
       /\ UNCHANGED otherVars

\* The seven fetches of batch p have settled: aggregate, write, finally.
RefreshSettles(p, failChoices) ==
  \E failed \in failChoices, err \in FetchErrors, data \in DataSets,
     writeOutcome \in WriteOutcomes :
    LET payload == PayloadTable[fredApiKey, failed, err, data]
        threw == ShouldWrite(payload) /\ writeOutcome # "ok"
    IN /\ p \in inflight
       /\ store' = IF ShouldWrite(payload)
                   THEN writeMacroCache(payload, writeOutcome) ELSE store
       /\ inflight' = inflight \ {p}
       /\ macroRefreshPromise' = NoPromise
       /\ resp' = IF awaiting[p] > 0 THEN Some(AwaitedResult(payload, writeOutcome)) ELSE Null
       /\ awaiting' = [awaiting EXCEPT ![p] = 0]
       /\ event' = Event("settle", p, IF fredApiKey THEN failed ELSE FRED_SERIES,
                          Some(payload), threw)
       /\ UNCHANGED <<fredApiKey, now, started, fetchCalls>>
       /\ UNCHANGED otherVars

RefreshCompletes == \E p \in 1..MaxRefreshes : RefreshSettles(p, FailSets)

Next == Tick \/ ServeFresh \/ ServeStale \/ AwaitRefresh \/ RefreshCompletes

Spec == Init /\ [][Next]_vars

\* One batch at one instant, driven with every failing subset of the seven
\* indicators.
FirstBatchRequest == (started = 0 \/ macroRefreshPromise # NoPromise) /\ AwaitRefresh

FirstBatchCompletes == \E p \in 1..MaxRefreshes : RefreshSettles(p, SUBSET FRED_SERIES)

NextBatch == FirstBatchRequest \/ FirstBatchCompletes \/ ServeFresh

SpecBatch == Init /\ [][NextBatch]_vars

(* ------------------------ fetchJson / fetchText ------------------------ *)
\* The calls of one Promise.all batch, each with its own AbortController and
\* timer.
BatchCalls == 2

\* fetchJson(url, 12000), fetchJson(url, 14000) and fetchText(url, 12000).
CallSites == {[fn |-> "fetchJson", timeoutMs |-> 12000],
              [fn |-> "fetchJson", timeoutMs |-> 14000],
              [fn |-> "fetchText", timeoutMs |-> 12000]}

\* What the provider does with the request: answers 200 with a well-formed
\* body, answers with a non-success status, answers 200 with a body that is
\* not JSON, drops the connection, never sends headers, or sends the headers
\* of a 200 and never finishes the body.
ProviderPlans == {"ok", "status", "malformed", "network", "silent", "stalls"}

\* An Error: its name, its message and the number in the message.
Error(name, text, arg) == [name |-> name, text |-> text, arg |-> arg]
NoError == Error("", "", 0)
AbortError == Error("AbortError", "This operation was aborted", 0)

\* The catch block reporting every error as a timeout.
CatchError_AlwaysTimeout(error, timeoutMs) ==
  Error("Error", "Request timed out after ms", timeoutMs)

\* catch (error): an AbortError becomes the timeout error, any other error is
\* rethrown.
CatchError(error, timeoutMs) ==
  IF error.name = "AbortError"
  THEN Error("Error", "Request timed out after ms", timeoutMs)
  ELSE error

\* The call after const timeoutId = setTimeout(...) and fetch(url, {signal}).
NewCall(site, plan) ==
  [fn |-> site.fn, timeoutMs |-> site.timeoutMs, plan |-> plan,
   stage |-> "connecting", timer |-> "armed", abortedIn |-> "",
   state |-> "pending", error |-> NoError]

\* finally { clearTimeout(timeoutId) }
Finally(call) == [call EXCEPT !.timer = "cleared"]

Rejected(call, error) == [call EXCEPT !.stage = "done", !.state = "rejected", !.error = error]
Fulfilled(call) == [call EXCEPT !.stage = "done", !.state = "fulfilled"]

InitFetch ==
  /\ calls \in [1..BatchCalls -> {NewCall(site, plan) : site \in CallSites, plan \in ProviderPlans}]
  /\ btc = NoBtcRequest
  /\ align = NoAlignment
  /\ compute = NoComputation
  /\ fredApiKey = TRUE
  /\ now = 0
  /\ store = StoreMissing
  /\ macroRefreshPromise = NoPromise
  /\ inflight = {}
  /\ awaiting = [p \in 1..MaxRefreshes |-> 0]
  /\ started = 0
  /\ fetchCalls = 0
  /\ resp = Null
  /\ event = Event("init", NoPromise, {}, Null, FALSE)

\* await fetch(...) resolves with the response: a non-success status throws
\* inside the try and goes through catch; otherwise response.json() /
\* response.text() is returned without await, so finally clears the timer
\* before the body is read.
HeadersArrive(i) ==
  /\ calls[i].stage = "connecting"
  /\ calls[i].plan \in {"ok", "status", "malformed", "stalls"}
  /\ calls' = [calls EXCEPT ![i] =
       IF calls[i].plan = "status"
       THEN Finally(Rejected(calls[i],
                             CatchError(Error("Error", "Request failed", 500),
                                        calls[i].timeoutMs)))
       ELSE Finally([calls[i] EXCEPT !.stage = "reading"])]
  /\ UNCHANGED <<fredApiKey, cacheVars, btc, align, compute>>

\* await fetch(...) rejects with a network error.
ConnectionFails(i) ==
  /\ calls[i].stage = "connecting"
  /\ calls[i].plan = "network"
  /\ calls' = [calls EXCEPT ![i] =
       Finally(Rejected(calls[i],
                        CatchError(Error("TypeError", "fetch failed", 0),
                                   calls[i].timeoutMs)))]
  /\ UNCHANGED <<fredApiKey, cacheVars, btc, align, compute>>

\* The promise of response.json() / response.text() settles; it was returned
\* from the try block, so its rejection does not pass through catch.
BodyArrives(i) ==
  /\ calls[i].stage = "reading"
  /\ calls[i].plan \in {"ok", "malformed"}
  /\ calls' = [calls EXCEPT ![i] =
       IF calls[i].plan = "malformed" /\ calls[i].fn = "fetchJson"
       THEN Rejected(calls[i], Error("SyntaxError", "Unexpected token", 0))
       ELSE Fulfilled(calls[i])]
  /\ UNCHANGED <<fredApiKey, cacheVars, btc, align, compute>>

\* The timer callback: controller.abort().  A pending fetch() rejects with an
\* AbortError inside the try; a pending body read rejects with it outside.
TimerFires(i) ==
  /\ calls[i].timer = "armed"
  /\ calls[i].state = "pending"
  /\ calls' = [calls EXCEPT ![i] =
       LET fired == [calls[i] EXCEPT !.timer = "fired", !.abortedIn = calls[i].stage] IN
       IF calls[i].stage = "connecting"
       THEN Rejected(fired, CatchError(AbortError, calls[i].timeoutMs))
       ELSE Rejected(fired, AbortError)]
  /\ UNCHANGED <<fredApiKey, cacheVars, btc, align, compute>>

NextFetch ==
  \E i \in 1..BatchCalls :
    HeadersArrive(i) \/ ConnectionFails(i) \/ BodyArrives(i) \/ TimerFires(i)

\* Node fires an armed timer, and a provider that answers does so eventually.
SpecFetch ==
  /\ InitFetch
  /\ [][NextFetch]_vars
  /\ \A i \in 1..BatchCalls :
       /\ WF_vars(HeadersArrive(i))
       /\ WF_vars(ConnectionFails(i))
       /\ WF_vars(BodyArrives(i))
       /\ WF_vars(TimerFires(i))

(* --------------------------- the BTC endpoints ------------------------- *)
\* A JavaScript value that Number() is applied to: a number, null, or a value
\* that is not numeric (undefined, "."), and Number(value) as a nullable
\* number (NaN is Null).
Num(n) == [t |-> "number", n |-> n]
JsNull == [t |-> "null", n |-> 0]
NotNumeric == [t |-> "undefined", n |-> 0]
ToNumber(value) ==
  IF value.t = "number" THEN Some(value.n) ELSE IF value.t = "null" THEN Some(0) ELSE Null

\* An observation { date, value }.  Dates are ISO days, written as the day
\* numbers 1, 2, ... in calendar order; 0 is the empty (falsy) date.
Point(date, value) == [date |-> date, value |-> value]

\* item.date && Number.isFinite(Number(item.value))
IsValidPoint(pt) == pt.date # 0 /\ IsFinite(ToNumber(pt.value))

\* .sort((a, b) => a.date < b.date ? -1 : ...) of the entries of a Map keyed by date.
RECURSIVE SortedByDate(_, _)
SortedByDate(dates, valueOf) ==
  IF dates = {} THEN <<>>
  ELSE Bind(CHOOSE d \in dates : \A e \in dates : d <= e, LAMBDA first :
         <<Point(first, valueOf[first])>> \o SortedByDate(dates \ {first}, valueOf))

\* dedupeByDate keeping the first observation of a date.
dedupeByDate_FirstWins(points) ==
  Bind(SelectSeq(points, IsValidPoint), LAMBDA valid :
    SortedByDate({valid[i].date : i \in 1..Len(valid)},
                 [d \in {valid[i].date : i \in 1..Len(valid)} |->
                    Num(Get(ToNumber(valid[CHOOSE i \in 1..Len(valid) :
                                             /\ valid[i].date = d
                                             /\ \A j \in 1..(i - 1) : valid[j].date # d].value)))]))

\* map.set(point.date, Number(point.value)) in input order, then sorted by date.
dedupeByDate(points) ==
  Bind(SelectSeq(points, IsValidPoint), LAMBDA valid :
    SortedByDate({valid[i].date : i \in 1..Len(valid)},
                 [d \in {valid[i].date : i \in 1..Len(valid)} |->
                    Num(Get(ToNumber(valid[CHOOSE i \in 1..Len(valid) :
                                             /\ valid[i].date = d
                                             /\ \A j \in (i + 1)..Len(valid) : valid[j].date # d].value)))]))

\* const floor = "2011-01-01" among the days 1..4, and the observation_start
\* of fetchFredSeries (six years back from today).
BtcFloor == 2
ObservationStart == 3

Providers == <<"fred", "coingecko", "blockchain">>

\* The value provider number k reports for a day: the providers disagree.
Quote(k, day) == Num(100 * k + 10 * day)

\* What a provider can answer with: no rows, a history reaching back to the
\* floor, recent days only with one day reported twice, or a history whose
\* old observation has no usable value.
Answers(k) ==
  {<<>>,
   <<Point(2, Quote(k, 2)), Point(3, Quote(k, 3))>>,
   <<Point(3, Quote(k, 3)), Point(4, Quote(k, 4)), Point(3, Num(100 * k + 35))>>,
   <<Point(2, NotNumeric), Point(4, Quote(k, 4))>>}

\* .map(... Number(value) ...).filter(item => item.date && Number.isFinite(item.value))
Rows(answer) ==
  Bind(SelectSeq(answer, IsValidPoint), LAMBDA valid :
    Array([i \in 1..Len(valid) |-> Point(valid[i].date, Num(Get(ToNumber(valid[i].value))))]))

\* The observations FRED serves for observation_start.
RECURSIVE Since(_, _)
Since(answer, start) ==
  IF Len(answer) = 0 THEN <<>>
  ELSE (IF answer[1].date >= start THEN <<answer[1]>> ELSE <<>>) \o Since(Tail(answer), start)

\* FRED_API_KEY ? fetchFredSeries("CBBTCUSD") : fetchFredSeriesCsvFallback("CBBTCUSD")
FredRows(apiKey, answer) ==
  IF apiKey THEN Rows(Since(answer, ObservationStart)) ELSE Rows(answer)

\* fetchBtcDailySeries validating the floor with a strict comparison.
fetchBtcResult_StrictFloor(sources) ==
  IF Len(sources) = 0
  THEN [threw |-> TRUE, message |-> "Missing BTC daily history from all sources",
        series |-> <<>>]
  ELSE Bind(dedupeByDate(sources), LAMBDA merged :
         IF ~\E i \in 1..Len(merged) : merged[i].date < BtcFloor
         THEN [threw |-> TRUE,
               message |-> "BTC history available but missing pre-2011 coverage",
               series |-> <<>>]
         ELSE [threw |-> FALSE, message |-> "", series |-> merged])

\* The end of fetchBtcDailySeries: what it throws or returns for the sources
\* collected from the three providers.
fetchBtcResult(sources) ==
  IF Len(sources) = 0
  THEN [threw |-> TRUE, message |-> "Missing BTC daily history from all sources",
        series |-> <<>>]
  ELSE Bind(dedupeByDate(sources), LAMBDA merged :
         IF ~\E i \in 1..Len(merged) : merged[i].date <= BtcFloor
         THEN [threw |-> TRUE,
               message |-> "BTC history available but missing pre-2011 coverage",
               series |-> <<>>]
         ELSE [threw |-> FALSE, message |-> "", series |-> merged])

\* Price rows [ts, value]; a timestamp is written as its day number.
toPriceRowsFromDaily(daily) ==
  Bind(SelectSeq(daily, IsValidPoint), LAMBDA valid :
    Array([i \in 1..Len(valid) |->
             [ts |-> valid[i].date, value |-> Get(ToNumber(valid[i].value))]]))

\* prices.filter(([ts]) => ts >= startTs)
RECURSIVE NotBefore(_, _)
NotBefore(prices, startTs) ==
  IF Len(prices) = 0 THEN <<>>
  ELSE (IF prices[1].ts >= startTs THEN <<prices[1]>> ELSE <<>>)
       \o NotBefore(Tail(prices), startTs)

\* days is Null for "max" and Some(n) for the number n.
slicePriceRowsByDays(prices, days) ==
  IF Len(prices) = 0 THEN <<>>
  ELSE IF days = Null THEN prices
  ELSE IF Get(days) <= 0 THEN prices
  ELSE NotBefore(prices, prices[Len(prices)].ts - Get(days))

\* The days parameters of /api/btc/history, and the 730 days of the returns.
HistoryDays == {Null, Some(1), Some(30)}
ReturnsDays == 730

\* What the direct CoinGecko request of a handler returns when it succeeds.
DirectPrices == <<[ts |-> 3, value |-> 9030], [ts |-> 4, value |-> 9040]>>

Response(status, source, prices, usd, error) ==
  [status |-> status, source |-> source, prices |-> prices, usd |-> usd, error |-> error]

\* Where a handler starts: the merged series for days = max, the direct
\* request otherwise.
BtcRequest ==
  /\ btc.pc = "idle"
  /\ \E handler \in {"history", "returns", "current"}, days \in HistoryDays :
       /\ handler # "history" => days = Some(30)
       /\ btc' = [btc EXCEPT !.handler = handler, !.days = days,
                             !.pc = IF handler = "history" /\ days = Null
                                    THEN "fred" ELSE "direct"]
  /\ UNCHANGED <<fredApiKey, cacheVars, calls, align, compute>>

\* The direct request failing with a 500 response and no fallback.
DirectSettles_NoFallback ==
  /\ btc.pc = "direct"
  /\ \E ok \in BOOLEAN :
       btc' = IF ok
              THEN [btc EXCEPT !.direct = "ok", !.pc = "done",
                      !.resp = Some(IF btc.handler = "history"
                                    THEN Response(200, "coingecko", DirectPrices, Null, "")
                                    ELSE IF btc.handler = "returns"
                                    THEN Response(200, "", DirectPrices, Null, "")
                                    ELSE Response(200, "", <<>>, Some(9040), ""))]
              ELSE [btc EXCEPT !.direct = "failed", !.pc = "done",
                      !.resp = Some(Response(500, "", <<>>, Null, "Request failed"))]
  /\ UNCHANGED <<fredApiKey, cacheVars, calls, align, compute>>

\* The direct fetchJson settles: the response is sent, or the catch calls
\* fetchBtcDailySeries.
DirectSettles ==
  /\ btc.pc = "direct"
  /\ \E ok \in BOOLEAN :
       btc' = IF ok
              THEN [btc EXCEPT !.direct = "ok", !.pc = "done",
                      !.resp = Some(IF btc.handler = "history"
                                    THEN Response(200, "coingecko", DirectPrices, Null, "")
                                    ELSE IF btc.handler = "returns"
                                    THEN Response(200, "", DirectPrices, Null, "")
                                    ELSE Response(200, "", <<>>, Some(9040), ""))]
              ELSE [btc EXCEPT !.direct = "failed", !.pc = "fred"]
  /\ UNCHANGED <<fredApiKey, cacheVars, calls, align, compute>>

\* try { rows = await ...; if (rows.length) sources.push(...rows) } catch {}
Collected(k, rows, threw) ==
  [btc EXCEPT !.sources = IF threw THEN @ ELSE @ \o rows,
              !.queried = @ \cup {Providers[k]},
              !.failed = IF threw THEN @ \cup {Providers[k]} ELSE @]

FredSettles ==
  /\ btc.pc = "fred"
  /\ \E threw \in BOOLEAN, answer \in Answers(1) :
       btc' = [Collected(1, FredRows(fredApiKey, answer), threw) EXCEPT !.pc = "coingecko"]
  /\ UNCHANGED <<fredApiKey, cacheVars, calls, align, compute>>

CoinGeckoSettles ==
  /\ btc.pc = "coingecko"
  /\ \E threw \in BOOLEAN, answer \in Answers(2) :
       btc' = [Collected(2, Rows(answer), threw) EXCEPT !.pc = "blockchain"]
  /\ UNCHANGED <<fredApiKey, cacheVars, calls, align, compute>>

\* The response of the handler that awaited fetchBtcDailySeries.
MergedResponse(handler, days, daily) ==
  IF daily.threw THEN Response(500, "", <<>>, Null, daily.message)
  ELSE IF handler = "history"
  THEN Response(200, IF days = Null THEN "merged-series" ELSE "fallback-merged-series",
                slicePriceRowsByDays(toPriceRowsFromDaily(daily.series), days), Null, "")
  ELSE IF handler = "returns"
  THEN Response(200, "",
                slicePriceRowsByDays(toPriceRowsFromDaily(daily.series), Some(ReturnsDays)),
                Null, "")
  ELSE Response(200, "fallback-merged-series", <<>>,
                ToNumber(daily.series[Len(daily.series)].value), "")

\* The last provider settles: fetchBtcDailySeries validates and merges, and
\* the handler sends its response.
BlockchainSettles ==
  /\ btc.pc = "blockchain"
  /\ \E threw \in BOOLEAN, answer \in Answers(3) :
       btc' = Bind(Collected(3, Rows(answer), threw), LAMBDA collected :
                Bind(fetchBtcResult(collected.sources), LAMBDA daily :
                  [collected EXCEPT !.pc = "done", !.daily = Some(daily),
                                    !.resp = Some(MergedResponse(btc.handler, btc.days, daily))]))
  /\ UNCHANGED <<fredApiKey, cacheVars, calls, align, compute>>

InitBtc ==
  /\ btc = NoBtcRequest
  /\ calls = NoCalls
  /\ align = NoAlignment
  /\ compute = NoComputation
  /\ fredApiKey \in BOOLEAN
  /\ now = 0
  /\ store = StoreMissing
  /\ macroRefreshPromise = NoPromise
  /\ inflight = {}
  /\ awaiting = [p \in 1..MaxRefreshes |-> 0]
  /\ started = 0
  /\ fetchCalls = 0
  /\ resp = Null
  /\ event = Event("init", NoPromise, {}, Null, FALSE)

NextBtc ==
  BtcRequest \/ DirectSettles \/ FredSettles \/ CoinGeckoSettles \/ BlockchainSettles

SpecBtc == InitBtc /\ [][NextBtc]_vars

(* -------------------------- alignSeriesToDates ------------------------- *)
MaxPoints == 2
MaxDates == 2

\* .sort((a, b) => a.date < b.date ? -1 : a.date > b.date ? 1 : 0): stable,
\* so observations of one date keep their order.
RECURSIVE InsertByDate(_, _)
InsertByDate(sorted, pt) ==
  IF Len(sorted) = 0 THEN <<pt>>
  ELSE IF sorted[Len(sorted)].date <= pt.date THEN Append(sorted, pt)
  ELSE Append(InsertByDate(SubSeq(sorted, 1, Len(sorted) - 1), pt), sorted[Len(sorted)])

RECURSIVE SortByDate(_)
SortByDate(points) ==
  IF Len(points) = 0 THEN <<>>
  ELSE InsertByDate(SortByDate(SubSeq(points, 1, Len(points) - 1)), points[Len(points)])

\* The cursor stopping before an observation dated on the target date.
RECURSIVE Advance_Strict(_, _, _, _)
Advance_Strict(sorted, isoDate, idx, last) ==
  IF idx <= Len(sorted) /\ sorted[idx].date < isoDate
  THEN Advance_Strict(sorted, isoDate, idx + 1, ToNumber(sorted[idx].value))
  ELSE [idx |-> idx, last |-> last]

\* while (idx < sorted.length && sorted[idx].date <= isoDate) { last = ...; idx += 1 }
RECURSIVE Advance(_, _, _, _)
Advance(sorted, isoDate, idx, last) ==
  IF idx <= Len(sorted) /\ sorted[idx].date <= isoDate
  THEN Advance(sorted, isoDate, idx + 1, ToNumber(sorted[idx].value))
  ELSE [idx |-> idx, last |-> last]

\* for (const isoDate of isoDates) { ...; aligned.push(last) }, from the k-th date on.
RECURSIVE AlignFrom(_, _, _, _, _)
AlignFrom(sorted, isoDates, k, idx, last) ==
  IF k > Len(isoDates) THEN <<>>
  ELSE Bind(Advance(sorted, isoDates[k], idx, last), LAMBDA cursor :
         <<cursor.last>> \o AlignFrom(sorted, isoDates, k + 1, cursor.idx, cursor.last))

\* alignSeriesToDates walking the points in the order given.
alignSeriesToDates_Unsorted(points, isoDates) ==
  IF Len(points) = 0 \/ Len(isoDates) = 0 THEN <<>>
  ELSE AlignFrom(Rows(points), isoDates, 1, 1, Null)

\* The aligned values, null (Null) or a number.
alignSeriesToDates(points, isoDates) ==
  IF Len(points) = 0 \/ Len(isoDates) = 0 THEN <<>>
  ELSE AlignFrom(SortByDate(Rows(points)), isoDates, 1, 1, Null)

\* The observations and target dates the function is called with: dated 2 to
\* 4, two of them on one day, one without a date, one without a usable value
\* and one whose value is null; targets from day 1, before every observation.
AlignPoints ==
  {Point(2, Num(5)), Point(2, Num(6)), Point(3, Num(7)), Point(4, Num(8)),
   Point(0, Num(9)), Point(3, NotNumeric), Point(2, JsNull)}
AlignDates == 1..4

SeqsUpTo(S, n) == UNION {[1..k -> S] : k \in 0..n}

\* The server at rest: no request, no refresh, no other call under way.
Quiet ==
  /\ calls = NoCalls
  /\ btc = NoBtcRequest
  /\ align = NoAlignment
  /\ fredApiKey = TRUE
  /\ now = 0
  /\ store = StoreMissing
  /\ macroRefreshPromise = NoPromise
  /\ inflight = {}
  /\ awaiting = [p \in 1..MaxRefreshes |-> 0]
  /\ started = 0
  /\ fetchCalls = 0
  /\ resp = Null
  /\ event = Event("init", NoPromise, {}, Null, FALSE)

InitAlign ==
  /\ \E points \in SeqsUpTo(AlignPoints, MaxPoints), isoDates \in SeqsUpTo(AlignDates, MaxDates) :
       align = [pc |-> "called", points |-> points, isoDates |-> isoDates, aligned |-> <<>>]
  /\ compute = NoComputation
  /\ calls = NoCalls
  /\ btc = NoBtcRequest
  /\ fredApiKey = TRUE
  /\ now = 0
  /\ store = StoreMissing
  /\ macroRefreshPromise = NoPromise
  /\ inflight = {}
  /\ awaiting = [p \in 1..MaxRefreshes |-> 0]
  /\ started = 0
  /\ fetchCalls = 0
  /\ resp = Null
  /\ event = Event("init", NoPromise, {}, Null, FALSE)

AlignReturns ==
  /\ align.pc = "called"
  /\ align' = [align EXCEPT !.pc = "returned",
                            !.aligned = alignSeriesToDates(align.points, align.isoDates)]
  /\ UNCHANGED <<fredApiKey, cacheVars, calls, btc, compute>>

NextAlign == AlignReturns

SpecAlign == InitAlign /\ [][NextAlign]_vars

(* ------------------------ computeLiquiditySeries ----------------------- *)
\* The series buildMacroPayload hands to computeLiquiditySeries are the three
\* FRED series as fetched: WALCL and WTREGEN have one observation a week,
\* RRPONTSYD one a day, all three up to the same last day.
MaxSeries == 3
LastDay == 15
WeekDays == 7
WalclValues == {100, 200, 300}
RrpValues == {10, 20}
TgaValues == {5, 7}

\* The observations of a series with one observation every step days.
Series(values, step) ==
  [i \in 1..Len(values) |->
     [date |-> LastDay - step * (Len(values) - i), value |-> values[i]]]

\* The locals walclNorm, rrpNorm and tgaNorm of computeLiquiditySeries.
Norms(walcl, rrp, tga) ==
  Bind(Min3(Len(walcl), Len(rrp), Len(tga)), LAMBDA length :
    IF length = 0 THEN [walcl |-> <<>>, rrp |-> <<>>, tga |-> <<>>]
    ELSE [walcl |-> normalizeWindow(Array(Values(SliceTail(walcl, length)))),
          rrp |-> normalizeWindow(Array(Values(SliceTail(rrp, length)))),
          tga |-> normalizeWindow(Array(Values(SliceTail(tga, length))))])

InitLiquidity ==
  /\ \E w \in SeqsUpTo(WalclValues, MaxSeries), r \in SeqsUpTo(RrpValues, MaxSeries),
        t \in SeqsUpTo(TgaValues, MaxSeries) :
       compute = [fn |-> "computeLiquiditySeries", pc |-> "called",
                  walcl |-> Series(w, WeekDays), rrp |-> Series(r, 1),
                  tga |-> Series(t, WeekDays),
                  norms |-> [walcl |-> <<>>, rrp |-> <<>>, tga |-> <<>>],
                  result |-> <<>>]
  /\ Quiet

LiquidityReturns ==
  /\ compute.fn = "computeLiquiditySeries"
  /\ compute.pc = "called"
  /\ compute' = [compute EXCEPT
       !.pc = "returned",
       !.norms = Norms(compute.walcl, compute.rrp, compute.tga),
       !.result = computeLiquiditySeries(compute.walcl, compute.rrp, compute.tga)]
  /\ UNCHANGED <<fredApiKey, cacheVars, calls, btc, align>>

NextLiquidity == LiquidityReturns

SpecLiquidity == InitLiquidity /\ [][NextLiquidity]_vars

(* ----------------------------- classifyRegime -------------------------- *)
\* An input of classifyRegime is a current value and a 30-sample average,
\* either of which may be missing (undefined, null or NaN): the current value
\* is below, at or above an average of 1.00.
RegimeCurrents == {Null, Some(0), Some(100), Some(200)}
RegimeAverages == {Null, Some([sum |-> RegimeWindow * 100, n |-> RegimeWindow])}
RegimeInputs == [current : RegimeCurrents, avg30 : RegimeAverages]

InitRegime ==
  /\ \E liq \in RegimeInputs, ten \in RegimeInputs, real \in RegimeInputs, dxy \in RegimeInputs :
       compute = [fn |-> "classifyRegime", pc |-> "called",
                  liquidityIndex |-> liq, tenYearYield |-> ten, realYield |-> real,
                  dxy |-> dxy, result |-> Null]
  /\ Quiet

RegimeReturns ==
  /\ compute.fn = "classifyRegime"
  /\ compute.pc = "called"
  /\ compute' = [compute EXCEPT
       !.pc = "returned",
       !.result = Some(classifyRegime(compute.liquidityIndex, compute.tenYearYield,
                                      compute.realYield, compute.dxy))]
  /\ UNCHANGED <<fredApiKey, cacheVars, calls, btc, align>>

NextRegime == RegimeReturns

SpecRegime == InitRegime /\ [][NextRegime]_vars

(* -------------------------------- computeRsi --------------------------- *)
\* Positions are counted from 1: index i of the code is position i + 1.
MaxRsiLen == 4
MaxPeriod == 3
RsiPeriod == 14
RsiValues == {100, 200, 300}

\* delta > 0 ? delta : 0 and delta < 0 ? Math.abs(delta) : 0 at a position.
GainAt(values, pos) ==
  IF values[pos] - values[pos - 1] > 0 THEN values[pos] - values[pos - 1] ELSE 0
LossAt(values, pos) ==
  IF values[pos] - values[pos - 1] < 0 THEN values[pos - 1] - values[pos] ELSE 0

\* avgGain and avgLoss after the step of a position, as the fractions
\* gain / den and loss / den: the plain means of the first period changes,
\* then ((avg * (period - 1)) + change) / period.
RECURSIVE Averages(_, _, _)
Averages(values, period, pos) ==
  IF pos = period + 1
  THEN [gain |-> SeqSum([k \in 1..period |-> GainAt(values, k + 1)]),
        loss |-> SeqSum([k \in 1..period |-> LossAt(values, k + 1)]),
        den |-> period]
  ELSE Bind(Averages(values, period, pos - 1), LAMBDA prev :
         [gain |-> prev.gain * (period - 1) + GainAt(values, pos) * prev.den,
          loss |-> prev.loss * (period - 1) + LossAt(values, pos) * prev.den,
          den |-> prev.den * period])

\* The zero test on the average loss left out: 100 / (1 + x / 0) is not a
\* number for x = 0, and the entry becomes null.
RsiOf_NoZeroGuard(avg) ==
  IF avg.loss = 0 /\ avg.gain = 0 THEN Null
  ELSE Some(RoundDiv(10000 * avg.gain, avg.gain + avg.loss))

\* avgLoss === 0 ? 100 : 100 - (100 / (1 + (avgGain / avgLoss))), toFixed(2).
RsiOf(avg) ==
  IF avg.loss = 0 THEN Some(10000)
  ELSE Some(RoundDiv(10000 * avg.gain, avg.gain + avg.loss))

computeRsi(values, period) ==
  IF Len(values) < period + 1 THEN [pos \in 1..Len(values) |-> Null]
  ELSE Array([pos \in 1..Len(values) |->
                IF pos <= period THEN Null ELSE RsiOf(Averages(values, period, pos))])

\* The monthly closes handlePlanBModel passes with period 14: fifteen or
\* sixteen closes that rise every month, fall every month, or rise and then
\* fall back in the last month.
MonthlyCloses ==
  {[i \in 1..n |-> 100 * i] : n \in {RsiPeriod, RsiPeriod + 1, RsiPeriod + 2}}
  \cup {[i \in 1..n |-> 100 * (n + 1 - i)] : n \in {RsiPeriod + 1, RsiPeriod + 2}}
  \cup {[i \in 1..(RsiPeriod + 2) |-> IF i = RsiPeriod + 2 THEN 100 ELSE 100 * i]}

InitRsi ==
  /\ \E call \in (SeqsUpTo(RsiValues, MaxRsiLen) \X (1..MaxPeriod))
                  \cup (MonthlyCloses \X {RsiPeriod}) :
       compute = [fn |-> "computeRsi", pc |-> "called", values |-> call[1],
                  period |-> call[2], output |-> <<>>]
  /\ Quiet

RsiReturns ==
  /\ compute.fn = "computeRsi"
  /\ compute.pc = "called"
  /\ compute' = [compute EXCEPT !.pc = "returned",
                                !.output = computeRsi(compute.values, compute.period)]
  /\ UNCHANGED <<fredApiKey, cacheVars, calls, btc, align>>

NextRsi == RsiReturns

SpecRsi == InitRsi /\ [][NextRsi]_vars

(* ----------------------------- computeRollingSma ----------------------- *)
\* The running sum is a double: every += and -= rounds its result to the
\* nearest number with 53 significant bits, halves to the even neighbour.
\* The model keeps the rounding rule and gives the numbers MantissaBits
\* significant bits; the values are whole numbers, each one representable.
MantissaBits == 3
MaxSmaLen == 4
MaxWindow == 3

RECURSIVE Pow2(_)
Pow2(n) == IF n = 0 THEN 1 ELSE 2 * Pow2(n - 1)

\* The spacing of the representable numbers around a >= 0.
RECURSIVE UlpFrom(_, _)
UlpFrom(a, u) == IF a < Pow2(MantissaBits) * u THEN u ELSE UlpFrom(a, 2 * u)

\* The representable number nearest to the whole number x.
Fl(x) ==
  LET a == IF x < 0 THEN 0 - x ELSE x
      u == UlpFrom(a, 1)
      q == a \div u
      r == a % u
      m == IF 2 * r < u THEN q * u
           ELSE IF 2 * r > u THEN (q + 1) * u
           ELSE IF q % 2 = 0 THEN q * u ELSE (q + 1) * u
  IN IF x < 0 THEN 0 - m ELSE m

\* The sum never giving up the value that leaves the window.
RECURSIVE RunningSum_NoEviction(_, _, _)
RunningSum_NoEviction(values, windowSize, pos) ==
  IF pos = 0 THEN 0
  ELSE Fl(RunningSum_NoEviction(values, windowSize, pos - 1) + values[pos])

\* sum += values[i]; if (i >= windowSize) sum -= values[i - windowSize], after
\* the step of a position (index i is position i + 1).
RECURSIVE RunningSum(_, _, _)
RunningSum(values, windowSize, pos) ==
  IF pos = 0 THEN 0
  ELSE Bind(Fl(RunningSum(values, windowSize, pos - 1) + values[pos]), LAMBDA sum :
         IF pos - 1 >= windowSize THEN Fl(sum - values[pos - windowSize]) ELSE sum)

\* An entry sum / windowSize is kept as the pair of its operands.
computeRollingSma(values, windowSize) ==
  IF Len(values) < windowSize \/ windowSize <= 0 THEN [pos \in 1..Len(values) |-> Null]
  ELSE Array([pos \in 1..Len(values) |->
                IF pos - 1 >= windowSize - 1
                THEN Some([sum |-> RunningSum(values, windowSize, pos), n |-> windowSize])
                ELSE Null])

SmaValues == {1, 3, Pow2(MantissaBits)}

InitSma ==
  /\ \E values \in SeqsUpTo(SmaValues, MaxSmaLen), windowSize \in 0..MaxWindow :
       compute = [fn |-> "computeRollingSma", pc |-> "called", values |-> values,
                  windowSize |-> windowSize, output |-> <<>>]
  /\ Quiet

SmaReturns ==
  /\ compute.fn = "computeRollingSma"
  /\ compute.pc = "called"
  /\ compute' = [compute EXCEPT
       !.pc = "returned",
       !.output = computeRollingSma(compute.values, compute.windowSize)]
  /\ UNCHANGED <<fredApiKey, cacheVars, calls, btc, align>>

NextSma == SmaReturns

SpecSma == InitSma /\ [][NextSma]_vars

(* --------------------------- buildMacroPayload ------------------------- *)
\* What a refresh hands to buildMacroPayload for an indicator: its fetch
\* failed (no points, status not ok), or it returned a history one sample
\* short of the regime window, or a history that covers the window.
Supplies == {"failed", "short", "full"}
Trends == {"rising", "falling"}

Supplied(key, supply, data) ==
  IF supply = "failed"
  THEN [points |-> <<>>, status |-> [ok |-> FALSE, error |-> Some("Fetch failed")]]
  ELSE [points |-> IF supply = "short"
                   THEN SliceTail(Upstream(key, data), RegimeWindow - 1)
                   ELSE Upstream(key, data),
        status |-> [ok |-> TRUE, error |-> Null]]

InitBuild ==
  /\ \E supply \in [FRED_SERIES -> Supplies], data \in Trends :
       compute = [fn |-> "buildMacroPayload", pc |-> "called",
                  seriesMap |-> [key \in FRED_SERIES |-> Supplied(key, supply[key], data).points],
                  statusMap |-> [key \in FRED_SERIES |-> Supplied(key, supply[key], data).status],
                  payload |-> Null]
  /\ Quiet

BuildReturns ==
  /\ compute.fn = "buildMacroPayload"
  /\ compute.pc = "called"
  /\ compute' = [compute EXCEPT
       !.pc = "returned",
       !.payload = Some(buildMacroPayload(compute.seriesMap, compute.statusMap))]
  /\ UNCHANGED <<fredApiKey, cacheVars, calls, btc, align>>

NextBuild == BuildReturns

SpecBuild == InitBuild /\ [][NextBuild]_vars

(* ------------------------- vocabulary of the claims -------------------- *)
\* A usable snapshot is persisted.
SnapshotExists == store.kind = "json" /\ store.payload # Null /\ store.cachedAt # Null
SnapshotAge == now - Get(store.cachedAt)
SnapshotOf(payload, t) == [kind |-> "json", cachedAt |-> Some(t), payload |-> Some(payload)]

\* The step is the synchronous part of a getMacroPayload call.
IsCallStep == event'.op \in {"fresh", "stale", "cold"}

\* The step is the settlement of a refresh that some getMacroPayload call awaits.
IsAwaitedSettle == event'.op = "settle" /\ awaiting[event'.promise] > 0

\* A payload without its cache tags.
Body(payload) == [f \in DOMAIN payload \ {"cacheState", "cacheAgeMinutes"} |-> payload[f]]

WellFormed(response) ==
  /\ response # Null
  /\ {"metrics", "regime", "cacheState"} \subseteq DOMAIN Get(response)
  /\ Get(response).cacheState \in {"fresh", "stale", "error"}

(* ------------------------------- claims -------------------------------- *)
\* C1: at most one batch of the seven indicator fetches is in flight, and a
\* call to refreshMacroCache made while a refresh is in progress returns the
\* in-flight promise and starts no fetch.
C1_SingleFlight ==
  [][/\ Cardinality(inflight') <= 1
     /\ fetchCalls' = Cardinality(FRED_SERIES) * started'
     /\ (inflight # {} /\ event'.op \in {"stale", "cold"}) =>
          /\ event'.promise \in inflight
          /\ inflight' = inflight
          /\ fetchCalls' = fetchCalls
          /\ started' = started]_vars

C1_Witness ==
  \E p \in inflight : awaiting[p] = 2 /\ started = 1 /\ fetchCalls = 7

\* C2: a call that finds a snapshot older than the TTL returns that snapshot
\* tagged stale in the same step, while the refresh is still in flight; it
\* started the refresh if none was running and joined the running one otherwise.
C2_StaleServedWithoutWaiting ==
  [][(IsCallStep /\ SnapshotExists /\ SnapshotAge > MACRO_CACHE_TTL_MS) =>
       /\ event'.op = "stale"
       /\ resp' # Null
       /\ Get(resp').cacheState = "stale"
       /\ Body(Get(resp')) = Body(Get(store.payload))
       /\ macroRefreshPromise' # NoPromise
       /\ macroRefreshPromise' \in inflight'
       /\ IF macroRefreshPromise = NoPromise
          THEN /\ started' = started + 1
               /\ macroRefreshPromise' \notin inflight
               /\ inflight' = inflight \cup {macroRefreshPromise'}
          ELSE /\ macroRefreshPromise' = macroRefreshPromise
               /\ inflight' = inflight
               /\ started' = started]_vars

C2_Witness ==
  /\ event.op = "stale"
  /\ resp # Null
  /\ Get(resp).cacheState = "stale"
  /\ macroRefreshPromise \in inflight

C4_ColdTotalFailureTaggedError ==
  [][(IsAwaitedSettle /\ ~SnapshotExists /\ Get(event'.built).okSeriesCount = 0) =>
       /\ resp' # Null
       /\ Get(resp').cacheState = "error"
       /\ Get(resp').metrics = emptyMacroPayload("").metrics
       /\ Get(resp').regime.macroRisk = "Unknown"
       /\ Get(resp').regime.liquidity = "Unknown"
       /\ Get(resp').regime.rates = "Unknown"
       /\ store' = store]_vars

\* C5: with no snapshot and at least one indicator fetched, the snapshot is
\* written when the awaiting call returns, and the call returns the stored
\* payload tagged fresh.
C5_ColdSuccessFreshAndPersisted ==
  [][(IsAwaitedSettle /\ ~SnapshotExists /\ Get(event'.built).okSeriesCount > 0) =>
       /\ store' = SnapshotOf(Get(event'.built), now)
       /\ resp' # Null
       /\ Get(resp').cacheState = "fresh"
       /\ Get(resp') = Get(store'.payload)]_vars

\* C6: a call that finds a snapshot of age <= TTL returns it tagged fresh
\* with cacheAgeMinutes the age rounded to a tenth of a minute, and changes
\* neither the snapshot nor the guard nor the fetches.
C6_FreshServedWithoutRefresh ==
  [][(IsCallStep /\ SnapshotExists /\ SnapshotAge <= MACRO_CACHE_TTL_MS) =>
       /\ event'.op = "fresh"
       /\ resp' # Null
       /\ Get(resp').cacheState = "fresh"
       /\ Body(Get(resp')) = Body(Get(store.payload))
       /\ Get(resp').cacheAgeMinutes % 10 = 0
       /\ 600 * Get(resp').cacheAgeMinutes - SnapshotAge <= 3000
       /\ SnapshotAge - 600 * Get(resp').cacheAgeMinutes <= 3000
       /\ UNCHANGED <<store, macroRefreshPromise, inflight, awaiting, started, fetchCalls>>]_vars

C6_Witness ==
  /\ event.op = "fresh"
  /\ SnapshotExists
  /\ SnapshotAge = MACRO_CACHE_TTL_MS
  /\ Get(resp).cacheAgeMinutes = 1500
  /\ inflight = {}

\* C7: a call at time now on the snapshot written at cachedAt returns the
\* snapshot's metrics, liquidity series and regime, tagged fresh when
\* now - cachedAt <= 15 minutes and stale when it is more.
C7_CacheRoundTrip ==
  [][(IsCallStep /\ SnapshotExists) =>
       /\ resp' # Null
       /\ Get(resp').metrics = Get(store.payload).metrics
       /\ Get(resp').liquiditySeries = Get(store.payload).liquiditySeries
       /\ Get(resp').regime = Get(store.payload).regime
       /\ Get(resp').cacheState =
            IF now - Get(store.cachedAt) <= 15 * 60 * 1000 THEN "fresh" ELSE "stale"]_vars

C7_Witness ==
  /\ event.op = "fresh"
  /\ SnapshotExists
  /\ SnapshotAge = 15 * 60 * 1000
  /\ Get(resp).regime.macroRisk # "Unknown"
  /\ Get(resp).metrics = Get(store.payload).metrics

C9_FailuresIsolated ==
  event.op = "settle" =>
    LET payload == Get(event.built) IN
    /\ fetchCalls = 7 * started
    /\ DOMAIN payload.seriesStatus = FRED_SERIES
    /\ \A key \in FRED_SERIES :
         IF key \in event.failed
         THEN /\ ~payload.seriesStatus[key].ok
              /\ payload.seriesStatus[key].error # Null
              /\ Get(payload.seriesStatus[key].error) # ""
              /\ payload.metrics[key] = Null
         ELSE /\ payload.seriesStatus[key].ok
              /\ payload.seriesStatus[key].error = Null
    /\ payload.okSeriesCount = 7 - Cardinality(event.failed)
    /\ payload.okSeriesCount =
         Cardinality({key \in FRED_SERIES : payload.seriesStatus[key].ok})
    /\ payload.totalSeriesCount = 7

C9_Witness ==
  /\ event.op = "settle"
  /\ event.failed = {"tenYearYield", "dxyBroad"}
  /\ Get(event.built).okSeriesCount = 5
  /\ Get(event.built).metrics["twoYearYield"] # Null

\* C10: every getMacroPayload call that completes returns a payload with
\* metrics, a regime and a cacheState among fresh, stale and error; a refresh
\* that rejects is never passed on to the caller.
C10_AlwaysWellFormed ==
  [][/\ event'.op \in {"fresh", "stale"} => WellFormed(resp')
     /\ IsAwaitedSettle => WellFormed(resp')]_vars

C10_Witness ==
  /\ event.op = "settle"
  /\ event.threw
  /\ resp # Null
  /\ Get(resp).cacheState = "error"

\* C11: when the cache write fails in a refresh that fetched at least one
\* indicator, the call awaiting the refresh still gets the aggregated payload
\* with its metrics, not an error-tagged or empty payload.
C11_FailedWriteIsNoOp ==
  [][(IsAwaitedSettle /\ Get(event'.built).okSeriesCount > 0 /\ event'.threw) =>
       /\ resp' # Null
       /\ Get(resp').cacheState # "error"
       /\ Get(resp').metrics = Get(event'.built).metrics
       /\ Get(resp').okSeriesCount = Get(event'.built).okSeriesCount]_vars

\* C12: a call that finds the store missing, not JSON, or without a payload or
\* a finite cachedAt does what a call without cache does: it starts a refresh
\* (or joins the running one) and awaits it, returns nothing before the
\* refresh settles and leaves the store as it is.
C12_UnreadableStoreIsCold ==
  [][(IsCallStep /\ ~SnapshotExists) =>
       /\ event'.op = "cold"
       /\ resp' = Null
       /\ store' = store
       /\ macroRefreshPromise' \in inflight'
       /\ awaiting'[macroRefreshPromise'] = awaiting[macroRefreshPromise'] + 1
       /\ IF macroRefreshPromise = NoPromise
          THEN /\ started' = started + 1
               /\ fetchCalls' = fetchCalls + 7
               /\ inflight' = inflight \cup {macroRefreshPromise'}
          ELSE UNCHANGED <<macroRefreshPromise, inflight, started, fetchCalls>>]_vars

C12_Witness ==
  /\ event.op = "cold"
  /\ store = StoreNoCachedAt
  /\ macroRefreshPromise \in inflight
  /\ awaiting[macroRefreshPromise] = 1
  /\ resp = Null

\* C13: without FRED_API_KEY no indicator of a settled refresh is marked failed
\* for the missing credential.
C13_MissingCredentialFallsBack ==
  event.op = "settle" =>
    \A key \in FRED_SERIES :
      Get(event.built).seriesStatus[key].error # Some("Missing FRED_API_KEY")

\* C16: macroRefreshPromise is set exactly while a batch is in flight; the
\* settlement of a refresh resets it whether the refresh resolved or threw;
\* a stale call that finds it reset starts a new refresh.
C16_GuardResetOnCompletion ==
  [][/\ (macroRefreshPromise' # NoPromise) <=> (inflight' # {})
     /\ macroRefreshPromise' # NoPromise => inflight' = {macroRefreshPromise'}
     /\ event'.op = "settle" =>
          /\ macroRefreshPromise' = NoPromise
          /\ event'.promise \notin inflight'
     /\ (event'.op = "stale" /\ macroRefreshPromise = NoPromise) =>
          /\ started' = started + 1
          /\ macroRefreshPromise' = started'
          /\ fetchCalls' = fetchCalls + 7]_vars

C16_Witness ==
  /\ event.op = "stale"
  /\ started = 2
  /\ macroRefreshPromise = 2
  /\ inflight = {2}
  /\ fetchCalls = 14

\* The call has settled / settled with the timeout error of its own deadline.
Settled(call) == call.state # "pending"
IsTimeoutError(call) ==
  /\ call.state = "rejected"
  /\ call.error = Error("Error", "Request timed out after ms", call.timeoutMs)

\* C14: every fetchJson / fetchText call of a batch eventually settles,
\* whatever the provider does, so Promise.all over the batch settles.
C14_EveryFetchSettles ==
  <>(\A i \in DOMAIN calls : Settled(calls[i]))

\* C15: a call fails with the timeout error exactly when its timer fired while
\* fetch() was still waiting for the response, which aborts the request; it
\* fails with another error exactly when the response had a non-success
\* status, the connection failed or the JSON body was malformed; those errors
\* are never the timeout error.
C15_TimeoutAndTransportDistinct ==
  \A i \in DOMAIN calls :
    LET call == calls[i]
        transport == \/ call.plan \in {"status", "network"}
                     \/ call.plan = "malformed" /\ call.fn = "fetchJson"
    IN /\ IsTimeoutError(call) <=> call.abortedIn = "connecting"
       /\ call.timer = "fired" <=> call.abortedIn = "connecting"
       /\ (call.state = "rejected" /\ ~IsTimeoutError(call)) <=>
            (Settled(call) /\ transport /\ call.abortedIn = "")
       /\ (call.state = "rejected" /\ ~IsTimeoutError(call)) =>
            /\ call.error.name \in {"Error", "TypeError", "SyntaxError"}
            /\ call.error.text # "Request timed out after ms"
       /\ call.state = "fulfilled" => ~transport /\ call.abortedIn = ""

C15_Witness ==
  /\ DOMAIN calls = 1..BatchCalls
  /\ IsTimeoutError(calls[1])
  /\ calls[1].timeoutMs = 14000
  /\ calls[2].state = "rejected"
  /\ calls[2].error = Error("Error", "Request failed", 500)
  /\ calls[2].timer = "cleared"

\* fetchBtcDailySeries has returned or thrown; what it collected.
BtcSeriesSettled == btc.pc = "done" /\ btc.daily # Null
ValidSources == {i \in 1..Len(btc.sources) : IsValidPoint(btc.sources[i])}

\* C17: fetchBtcDailySeries throws exactly when no observation it collected is
\* dated at or before the floor (the merged series is then empty or without
\* old coverage); otherwise it returns a series with the dates collected; all
\* three providers were queried whichever of them failed.
C17_FailsOnlyWithoutFloorCoverage ==
  BtcSeriesSettled =>
    LET daily == Get(btc.daily) IN
    /\ daily.threw <=> ~\E i \in ValidSources : btc.sources[i].date <= 2
    /\ (ValidSources = {}) => daily.threw
    /\ ~daily.threw =>
         /\ daily.series # <<>>
         /\ {daily.series[j].date : j \in 1..Len(daily.series)} =
              {btc.sources[i].date : i \in ValidSources}
    /\ btc.queried = {"fred", "coingecko", "blockchain"}
    /\ btc.failed \subseteq btc.queried

C17_Witness ==
  /\ BtcSeriesSettled
  /\ btc.failed = {"fred", "coingecko"}
  /\ btc.queried = {"fred", "coingecko", "blockchain"}
  /\ ~Get(btc.daily).threw
  /\ Len(Get(btc.daily).series) = 2

\* C18: the merged series has one observation per date collected, in strictly
\* ascending date order, each with the value of the last observation of that
\* date in the order FRED, CoinGecko, blockchain.info.
C18_MergedLastWriteWins ==
  (BtcSeriesSettled /\ ~Get(btc.daily).threw) =>
    LET series == Get(btc.daily).series IN
    /\ \A j \in 1..(Len(series) - 1) : series[j].date < series[j + 1].date
    /\ \A i \in ValidSources : \E j \in 1..Len(series) : series[j].date = btc.sources[i].date
    /\ \A j \in 1..Len(series) :
         \E i \in ValidSources :
           /\ btc.sources[i].date = series[j].date
           /\ \A k \in ValidSources : btc.sources[k].date = series[j].date => k <= i
           /\ ToNumber(series[j].value) = ToNumber(btc.sources[i].value)

C18_Witness ==
  /\ BtcSeriesSettled
  /\ btc.failed = {}
  /\ Len(btc.sources) = 7
  /\ Get(btc.daily).series =
       <<Point(2, Num(320)), Point(3, Num(330)), Point(4, Num(240))>>

C20_AlignCarriesForward ==
  (/\ align.pc = "returned"
   /\ align.points # <<>>
   /\ \A k \in 1..(Len(align.isoDates) - 1) : align.isoDates[k] <= align.isoDates[k + 1]) =>
    /\ Len(align.aligned) = Len(align.isoDates)
    /\ \A k \in 1..Len(align.isoDates) :
         LET seen == {i \in 1..Len(align.points) :
                        /\ IsValidPoint(align.points[i])
                        /\ align.points[i].date <= align.isoDates[k]}
         IN IF seen = {}
            THEN align.aligned[k] = Null /\ align.aligned[k] # Some(0)
            ELSE \E i \in seen :
                   /\ \A j \in seen :
                        \/ align.points[j].date < align.points[i].date
                        \/ align.points[j].date = align.points[i].date /\ j <= i
                   /\ align.aligned[k] = ToNumber(align.points[i].value)

C20_Witness ==
  /\ align.pc = "returned"
  /\ align.points = <<Point(3, Num(7)), Point(2, Num(6))>>
  /\ align.isoDates = <<1, 2>>
  /\ align.aligned = <<Null, Some(6)>>

\* C21: a series of observations (a date and a number each) with distinct
\* dates, aligned to non-decreasing target dates that include every date of
\* the series, has at each of its own dates its own value.
C21_AlignReproducesOwnDates ==
  (/\ align.pc = "returned"
   /\ \A i \in 1..Len(align.points) :
        align.points[i].date # 0 /\ align.points[i].value.t = "number"
   /\ \A i, j \in 1..Len(align.points) :
        align.points[i].date = align.points[j].date => i = j
   /\ \A k \in 1..(Len(align.isoDates) - 1) : align.isoDates[k] <= align.isoDates[k + 1]
   /\ \A i \in 1..Len(align.points) :
        \E k \in 1..Len(align.isoDates) : align.isoDates[k] = align.points[i].date) =>
    \A i \in 1..Len(align.points), k \in 1..Len(align.isoDates) :
      align.isoDates[k] = align.points[i].date =>
        align.aligned[k] = Some(align.points[i].value.n)

C21_Witness ==
  /\ align.pc = "returned"
  /\ align.points = <<Point(4, Num(8)), Point(2, Num(5))>>
  /\ align.isoDates = <<2, 4>>
  /\ align.aligned = <<Some(5), Some(8)>>

\* The call of computeLiquiditySeries has returned; the length of the shortest
\* of its three series; the window of a series (its last CommonLength values).
LiquidityReturned == compute.fn = "computeLiquiditySeries" /\ compute.pc = "returned"
CommonLength ==
  CHOOSE n \in {Len(compute.walcl), Len(compute.rrp), Len(compute.tga)} :
    /\ n <= Len(compute.walcl) /\ n <= Len(compute.rrp) /\ n <= Len(compute.tga)
WindowOf(series) ==
  [idx \in 1..CommonLength |-> series[Len(series) - CommonLength + idx]]
Components == {"walcl", "rrp", "tga"}
InputOf(c) == IF c = "walcl" THEN compute.walcl ELSE IF c = "rrp" THEN compute.rrp ELSE compute.tga
IsConstant(window) == \A i, j \in 1..Len(window) : window[i].value = window[j].value
IsMaxOf(window, i) == \A j \in 1..Len(window) : window[j].value <= window[i].value
IsMinOf(window, i) == \A j \in 1..Len(window) : window[j].value >= window[i].value
NonEmptyInputs == Len(compute.walcl) > 0 /\ Len(compute.rrp) > 0 /\ Len(compute.tga) > 0

\* The points returned are the last CommonLength observations of each series,
\* dated as the balance-sheet observations are.
TailPoints ==
  /\ Len(compute.result) = CommonLength
  /\ \A idx \in 1..CommonLength :
       /\ compute.result[idx].date = WindowOf(compute.walcl)[idx].date
       /\ compute.result[idx].walcl = WindowOf(compute.walcl)[idx].value
       /\ compute.result[idx].rrp = WindowOf(compute.rrp)[idx].value
       /\ compute.result[idx].tga = WindowOf(compute.tga)[idx].value

\* C22 as stated: for three non-empty series computeLiquiditySeries returns
\* min(|walcl|, |rrp|, |tga|) points taken from the most recent end of each
\* series, and each component's normalized value is 100 at its maximum over
\* the window and 0 at its minimum.
C22_Original ==
  (LiquidityReturned /\ NonEmptyInputs) =>
    /\ TailPoints
    /\ \A c \in Components : \A i \in 1..CommonLength :
         /\ IsMaxOf(WindowOf(InputOf(c)), i) =>
              compute.norms[c][i].num = 100 * compute.norms[c][i].den
         /\ IsMinOf(WindowOf(InputOf(c)), i) => compute.norms[c][i].num = 0

\* C22 amended: the same points; a component that varies over the window is
\* normalized to 100 at its maximum and 0 at its minimum, and a component that
\* is constant over the window is normalized to 0 everywhere.
C22_Amended ==
  (LiquidityReturned /\ NonEmptyInputs) =>
    /\ TailPoints
    /\ \A c \in Components : \A i \in 1..CommonLength :
         IF IsConstant(WindowOf(InputOf(c)))
         THEN compute.norms[c][i].num = 0
         ELSE /\ IsMaxOf(WindowOf(InputOf(c)), i) =>
                   compute.norms[c][i].num = 100 * compute.norms[c][i].den
              /\ IsMinOf(WindowOf(InputOf(c)), i) => compute.norms[c][i].num = 0

C22_Witness ==
  /\ LiquidityReturned
  /\ Values(compute.walcl) = <<300, 100, 200>>
  /\ Values(compute.rrp) = <<10, 20>>
  /\ Values(compute.tga) = <<5, 5, 5>>
  /\ Len(compute.result) = 2
  /\ compute.norms.walcl = <<[num |-> 0, den |-> 100], [num |-> 10000, den |-> 100]>>
  /\ compute.norms.tga = <<[num |-> 0, den |-> 100], [num |-> 0, den |-> 100]>>

\* The value of a series as of a date: that of its latest observation at or
\* before the date, Null when it has none.
AsOf(series, date) ==
  IF \E i \in 1..Len(series) : series[i].date <= date
  THEN Some(series[CHOOSE i \in 1..Len(series) :
                     /\ series[i].date <= date
                     /\ \A j \in 1..Len(series) :
                          series[j].date <= date => series[j].date <= series[i].date].value)
  ELSE Null

\* C23: in every Liquidity Point the walcl, rrp and tga values are each
\* series' value as of the point's date (its latest observation at or before
\* that date), whatever the native frequencies of the three series.
C23_AlignedByDate ==
  LiquidityReturned =>
    \A idx \in 1..Len(compute.result) :
      /\ Some(compute.result[idx].walcl) = AsOf(compute.walcl, compute.result[idx].date)
      /\ Some(compute.result[idx].rrp) = AsOf(compute.rrp, compute.result[idx].date)
      /\ Some(compute.result[idx].tga) = AsOf(compute.tga, compute.result[idx].date)

\* C30: every netLiquidityIndex of the points computeLiquiditySeries returns
\* lies between -200 and 100 (in hundredths), constant series included.
C30_IndexWithinRange ==
  LiquidityReturned =>
    \A idx \in 1..Len(compute.result) :
      /\ compute.result[idx].netLiquidityIndex >= 0 - 20000
      /\ compute.result[idx].netLiquidityIndex <= 10000

C30_Witness ==
  /\ LiquidityReturned
  /\ Values(compute.walcl) = <<100, 200, 300>>
  /\ Values(compute.rrp) = <<10, 10, 20>>
  /\ Values(compute.tga) = <<7, 7, 7>>
  /\ [idx \in 1..3 |-> compute.result[idx].netLiquidityIndex] = <<0, 5000, 0>>

\* The call of classifyRegime has returned; its eight inputs are all finite;
\* an input's current value is below / above its 30-sample average.
RegimeReturned == compute.fn = "classifyRegime" /\ compute.pc = "returned"
RegimeArguments ==
  {compute.liquidityIndex, compute.tenYearYield, compute.realYield, compute.dxy}
AllInputsFinite == \A x \in RegimeArguments : x.current # Null /\ x.avg30 # Null
Falling(x) == Get(x.current) * Get(x.avg30).n < Get(x.avg30).sum
Rising(x) == Get(x.current) * Get(x.avg30).n > Get(x.avg30).sum
RiskScore ==
  (IF Falling(compute.liquidityIndex) THEN 1 ELSE 0)
  + (IF Rising(compute.tenYearYield) THEN 1 ELSE 0)
  + (IF Rising(compute.realYield) THEN 1 ELSE 0)
  + (IF Rising(compute.dxy) THEN 1 ELSE 0)

\* C24: classifyRegime returns Unknown on all three axes exactly when one of
\* its eight inputs is not a finite number; otherwise macroRisk is Low for a
\* score of 0 or 1, Medium for 2 and High for 3 or 4, the score counting a
\* falling liquidity trend and rising nominal, real and dollar trends.
C24_RegimeBands ==
  RegimeReturned =>
    /\ (/\ Get(compute.result).liquidity = "Unknown"
        /\ Get(compute.result).rates = "Unknown"
        /\ Get(compute.result).macroRisk = "Unknown") <=> ~AllInputsFinite
    /\ AllInputsFinite =>
         /\ Get(compute.result).liquidity # "Unknown"
         /\ Get(compute.result).rates # "Unknown"
         /\ Get(compute.result).macroRisk =
              (IF RiskScore \in {0, 1} THEN "Low"
               ELSE IF RiskScore = 2 THEN "Medium" ELSE "High")

C24_Witness ==
  /\ RegimeReturned
  /\ AllInputsFinite
  /\ RiskScore = 2
  /\ Falling(compute.liquidityIndex)
  /\ Rising(compute.dxy)
  /\ Get(compute.result).macroRisk = "Medium"

\* The call of computeRsi has returned; no value of the series is below the
\* one before it up to a position (the average loss is then zero there).
RsiReturned == compute.fn = "computeRsi" /\ compute.pc = "returned"
NoLossUpTo(pos) == \A k \in 2..pos : compute.values[k] >= compute.values[k - 1]
StrictlyIncreasing ==
  \A k \in 2..Len(compute.values) : compute.values[k] > compute.values[k - 1]

\* C25: computeRsi with period p returns null at every index below p and, for
\* a series of at least p + 1 values, a number at every index from p on; the
\* number is exactly 100 wherever the average loss is zero, in particular at
\* index p of a strictly increasing series.
C25_RsiShape ==
  RsiReturned =>
    /\ Len(compute.output) = Len(compute.values)
    /\ \A pos \in 1..Len(compute.values) :
         /\ pos <= compute.period => compute.output[pos] = Null
         /\ (pos > compute.period /\ Len(compute.values) >= compute.period + 1) =>
              /\ compute.output[pos] # Null
              /\ NoLossUpTo(pos) => compute.output[pos] = Some(10000)
    /\ (StrictlyIncreasing /\ Len(compute.values) >= compute.period + 1) =>
         compute.output[compute.period + 1] = Some(10000)

C25_Witness ==
  /\ RsiReturned
  /\ compute.period = RsiPeriod
  /\ Len(compute.values) = RsiPeriod + 2
  /\ compute.output[RsiPeriod + 1] = Some(10000)
  /\ compute.output[RsiPeriod + 2] # Some(10000)
  /\ compute.output[RsiPeriod + 2] # Null

\* The call of computeRollingSma has returned; the sum of values[from..to]
\* added up directly, one += after the other from zero; every sum of the call
\* is exact (whole numbers whose total stays below 2^MantissaBits).
SmaReturned == compute.fn = "computeRollingSma" /\ compute.pc = "returned"
RECURSIVE DirectSum(_, _, _)
DirectSum(values, from, to) ==
  IF to < from THEN 0 ELSE Fl(DirectSum(values, from, to - 1) + values[to])
SumsAreExact == SeqSum(compute.values) < Pow2(MantissaBits)

\* Null below the first full window, and everywhere when the series is
\* shorter than the window.
NullUntilFull ==
  /\ Len(compute.output) = Len(compute.values)
  /\ \A pos \in 1..Len(compute.values) :
       (pos < compute.windowSize \/ Len(compute.values) < compute.windowSize) =>
         compute.output[pos] = Null

\* C26 as stated: null at every index below w - 1, and at every index from
\* w - 1 on the value kept by the running sum equals the mean of the last w
\* values computed directly; every output null when the series is shorter
\* than w.
C26_Original ==
  (SmaReturned /\ compute.windowSize >= 1) =>
    /\ NullUntilFull
    /\ Len(compute.values) >= compute.windowSize =>
         \A pos \in compute.windowSize..Len(compute.values) :
           compute.output[pos] =
             Some([sum |-> DirectSum(compute.values, pos - compute.windowSize + 1, pos),
                   n |-> compute.windowSize])

\* C26 amended: the same nulls; the running-sum value equals the directly
\* computed mean when every addition and subtraction of the call is exact.
C26_Amended ==
  (SmaReturned /\ compute.windowSize >= 1) =>
    /\ NullUntilFull
    /\ (Len(compute.values) >= compute.windowSize /\ SumsAreExact) =>
         \A pos \in compute.windowSize..Len(compute.values) :
           compute.output[pos] =
             Some([sum |-> DirectSum(compute.values, pos - compute.windowSize + 1, pos),
                   n |-> compute.windowSize])

C26_Witness ==
  /\ SmaReturned
  /\ compute.values = <<3, 1, 3>>
  /\ compute.windowSize = 2
  /\ SumsAreExact
  /\ compute.output = <<Null, Some([sum |-> 4, n |-> 2]), Some([sum |-> 4, n |-> 2])>>

\* The state follows the completion of a refresh that no call awaited: one
\* that calls served stale have triggered and joined.
AfterBackgroundRefresh == event.op = "settle" /\ resp = Null

C28_SnapshotMonotone ==
  [][/\ store.cachedAt # Null =>
          /\ store'.cachedAt # Null
          /\ Get(store'.cachedAt) >= Get(store.cachedAt)
     /\ store' # store => event'.op = "settle"
     /\ event'.op \in {"fresh", "stale"} => store' = store]_vars

C28_Witness ==
  /\ event.op = "settle"
  /\ started = 2
  /\ resp = Null
  /\ ~event.threw
  /\ Get(store.cachedAt) = now
  /\ now = 2 * MACRO_CACHE_TTL_MS

\* The call of buildMacroPayload has returned; an indicator failed or came
\* with fewer samples than the regime window; the six indicators the regime
\* is computed from.
BuildReturned == compute.fn = "buildMacroPayload" /\ compute.pc = "returned"
Insufficient(key) ==
  ~compute.statusMap[key].ok \/ Len(compute.seriesMap[key]) < RegimeWindow
RegimeFeeding == FRED_SERIES \ {"twoYearYield"}

\* C29: when one of the six indicators feeding the regime fails or has fewer
\* than 30 samples the payload's regime is Unknown on all three axes; when
\* only the 2Y yield fails the regime is classified on all three axes and,
\* of the metrics computed from the others, only curveSpread is null.
C29_RegimeNeedsSixIndicators ==
  BuildReturned =>
    /\ (\E key \in RegimeFeeding : Insufficient(key)) =>
         /\ Get(compute.payload).regime.liquidity = "Unknown"
         /\ Get(compute.payload).regime.rates = "Unknown"
         /\ Get(compute.payload).regime.macroRisk = "Unknown"
    /\ ((\A key \in RegimeFeeding : ~Insufficient(key))
        /\ ~compute.statusMap["twoYearYield"].ok) =>
         /\ Get(compute.payload).regime.liquidity \in {"Expanding", "Contracting"}
         /\ Get(compute.payload).regime.rates \in {"Easing", "Tightening"}
         /\ Get(compute.payload).regime.macroRisk \in {"Low", "Medium", "High"}
         /\ Get(compute.payload).metrics.curveSpread.value = Null
         /\ Get(compute.payload).metrics.twoYearYield = Null
         /\ Get(compute.payload).metrics.netLiquidityIndex.value # Null
         /\ \A m \in {"fedBalanceSheet", "reverseRepo", "treasuryGeneralAccount",
                      "tenYearYield", "realTenYearYield", "dxyBroad"} :
              Get(compute.payload).metrics[m] # Null

C29_Witness ==
  /\ BuildReturned
  /\ \A key \in RegimeFeeding : ~Insufficient(key)
  /\ ~compute.statusMap["twoYearYield"].ok
  /\ Get(compute.payload).regime.macroRisk = "High"
  /\ Get(compute.payload).metrics.curveSpread.value = Null
  /\ Get(compute.payload).okSeriesCount = 6

====
